---- MODULE Spec2Model ----
(***************************************************************************)
(* epiforecast_types.hpp: six global alias-declarations, each naming the   *)
(* built-in type double.  The header has no runtime behaviour of its own;  *)
(* what can be observed of it is what a C++ translation unit sees when it  *)
(* includes the file: the name environment after each declaration, the     *)
(* diagnostics the declarations raise, and how a value declared under one  *)
(* alias name behaves where another alias name is expected.                *)
(*                                                                         *)
(* The model is that translation unit: it includes the header up to        *)
(* MaxIncludes times, processes the declarations in file order, and uses   *)
(* the names that are bound.                                               *)
(***************************************************************************)
EXTENDS Integers, Sequences, FiniteSets

\* ---------------------------------------------------------------- bounds
\* how many times the translation unit includes the header
MaxIncludes == 2
\* values handed across alias names, in halves: v stands for v/2
MaxVal == 3

Values == (0 - MaxVal)..MaxVal

\* ------------------------------------------------------ the header's text
\* Mutants of the header (each a slip the file could plausibly contain).
HeaderWithInt ==
  << [line |-> 26, kind |-> "alias", name |-> "Time",          target |-> "double"],
     [line |-> 27, kind |-> "alias", name |-> "Observation",   target |-> "double"],
     [line |-> 28, kind |-> "alias", name |-> "Mean",          target |-> "double"],
     [line |-> 29, kind |-> "alias", name |-> "SD",            target |-> "int"],
     [line |-> 30, kind |-> "alias", name |-> "LogLikelihood", target |-> "double"],
     [line |-> 31, kind |-> "alias", name |-> "Rp",            target |-> "double"] >>

HeaderWithSeventh ==
  << [line |-> 26, kind |-> "alias", name |-> "Time",          target |-> "double"],
     [line |-> 27, kind |-> "alias", name |-> "Observation",   target |-> "double"],
     [line |-> 28, kind |-> "alias", name |-> "Mean",          target |-> "double"],
     [line |-> 29, kind |-> "alias", name |-> "SD",            target |-> "double"],
     [line |-> 30, kind |-> "alias", name |-> "LogLikelihood", target |-> "double"],
     [line |-> 31, kind |-> "alias", name |-> "Rp",            target |-> "double"],
     [line |-> 32, kind |-> "alias", name |-> "Variance",      target |-> "double"] >>

HeaderWithGlobal ==
  << [line |-> 26, kind |-> "alias",  name |-> "Time",          target |-> "double"],
     [line |-> 27, kind |-> "alias",  name |-> "Observation",   target |-> "double"],
     [line |-> 28, kind |-> "alias",  name |-> "Mean",          target |-> "double"],
     [line |-> 29, kind |-> "alias",  name |-> "SD",            target |-> "double"],
     [line |-> 30, kind |-> "alias",  name |-> "LogLikelihood", target |-> "double"],
     [line |-> 31, kind |-> "object", name |-> "Rp",            target |-> "double"] >>

HeaderWithFunction ==
  << [line |-> 26, kind |-> "alias",    name |-> "Time",          target |-> "double"],
     [line |-> 27, kind |-> "alias",    name |-> "Observation",   target |-> "double"],
     [line |-> 28, kind |-> "alias",    name |-> "Mean",          target |-> "double"],
     [line |-> 29, kind |-> "alias",    name |-> "SD",            target |-> "double"],
     [line |-> 30, kind |-> "function", name |-> "LogLikelihood", target |-> "double"],
     [line |-> 31, kind |-> "alias",    name |-> "Rp",            target |-> "double"] >>

HeaderWithChain ==
  << [line |-> 26, kind |-> "alias", name |-> "Time",          target |-> "double"],
     [line |-> 27, kind |-> "alias", name |-> "Observation",   target |-> "double"],
     [line |-> 28, kind |-> "alias", name |-> "Mean",          target |-> "Observation"],
     [line |-> 29, kind |-> "alias", name |-> "SD",            target |-> "double"],
     [line |-> 30, kind |-> "alias", name |-> "LogLikelihood", target |-> "double"],
     [line |-> 31, kind |-> "alias", name |-> "Rp",            target |-> "double"] >>

HeaderWithForeignName ==
  << [line |-> 26, kind |-> "alias", name |-> "Time",          target |-> "double"],
     [line |-> 27, kind |-> "alias", name |-> "Observation",   target |-> "Real"],
     [line |-> 28, kind |-> "alias", name |-> "Mean",          target |-> "double"],
     [line |-> 29, kind |-> "alias", name |-> "SD",            target |-> "double"],
     [line |-> 30, kind |-> "alias", name |-> "LogLikelihood", target |-> "double"],
     [line |-> 31, kind |-> "alias", name |-> "Rp",            target |-> "double"] >>

\* The declarations of the file, in file order (lines 26..31).
Header ==
  << [line |-> 26, kind |-> "alias", name |-> "Time",          target |-> "double"],
     [line |-> 27, kind |-> "alias", name |-> "Observation",   target |-> "double"],
     [line |-> 28, kind |-> "alias", name |-> "Mean",          target |-> "double"],
     [line |-> 29, kind |-> "alias", name |-> "SD",            target |-> "double"],
     [line |-> 30, kind |-> "alias", name |-> "LogLikelihood", target |-> "double"],
     [line |-> 31, kind |-> "alias", name |-> "Rp",            target |-> "double"] >>

GuardedTrue == TRUE

\* Lines 1..25 are comments and blank lines: no #ifndef/#define pair and no
\* #pragma once precedes the declarations.
Guarded == FALSE

NDecls == Len(Header)

\* the names the header declares
Names == { Header[i].name : i \in 1..NDecls }

\* the fundamental types of the language the model distinguishes
Builtin == {"double", "int"}

Unbound == "unbound"
Unknown == "unknown"

\* object representation width of a fundamental type, in bits
SizeBits(t) == IF t = "double" THEN 64 ELSE 32

\* ------------------------------------------------------ language rules
\* v is in halves.  double holds every value of Values; int holds whole
\* numbers only, and a floating value converted to int is truncated
\* towards zero.
TruncToInt(v) == IF v >= 0 THEN 2 * (v \div 2) ELSE 0 - 2 * ((0 - v) \div 2)

Convert(from, to, v) ==
  IF from = to THEN v
  ELSE IF to = "int" THEN TruncToInt(v)
  ELSE v

RedeclarableOnlyIfNew(old, ty) == old = Unbound

\* A name already bound to a type may be declared again as an alias of the
\* type it already names; any other rebinding is a conflicting declaration.
Redeclarable(old, ty) == old = Unbound \/ old = ty

VARIABLES
  env,        \* name -> the type it denotes, or Unbound
  written,    \* name -> the type-id as written on its right-hand side
  pos,        \* 0 outside the header, else index of the next declaration
  includes,   \* inclusions of the header started so far
  declCount,  \* name -> declarations of it seen in the current inclusion
  deps,       \* names other than built-in types used on a right-hand side
  objects,    \* names declared as objects with storage
  funcs,      \* names declared as functions
  err,        \* "none", or the diagnostic that stopped the translation
  lastUse     \* the last hand-over of a value between two alias names

vars == << env, written, pos, includes, declCount, deps, objects, funcs, err, lastUse >>

NoUse == [from |-> Unbound, to |-> Unbound, vin |-> 0, vout |-> 0, converted |-> FALSE]

\* The translation unit before its first #include of the header.
Init ==
  /\ env = [n \in Names |-> Unbound]
  /\ written = [n \in Names |-> Unbound]
  /\ pos = 0
  /\ includes = 0
  /\ declCount = [n \in Names |-> 0]
  /\ deps = {}
  /\ objects = {}
  /\ funcs = {}
  /\ err = "none"
  /\ lastUse = NoUse

\* the type a type-id written on a right-hand side denotes
TypeOf(target) ==
  IF target \in Builtin THEN target
  ELSE IF target \in Names /\ env[target] # Unbound THEN env[target]
  ELSE Unknown

\* #include "epiforecast_types.hpp": the file is entered at its first
\* declaration, unless a guard of the file has been seen before.
Include ==
  /\ err = "none"
  /\ pos = 0
  /\ includes < MaxIncludes
  /\ includes' = includes + 1
  /\ pos' = IF Guarded /\ includes >= 1 THEN 0 ELSE 1
  /\ declCount' = [n \in Names |-> 0]
  /\ UNCHANGED << env, written, deps, objects, funcs, err, lastUse >>

\* The declaration at pos is processed.
Declare ==
  /\ err = "none"
  /\ pos \in 1..NDecls
  /\ LET d  == Header[pos]
         ty == TypeOf(d.target)
     IN  IF ty = Unknown
         THEN /\ err' = "unknown_type"
              /\ UNCHANGED << env, written, pos, declCount, deps, objects, funcs >>
         ELSE IF d.kind = "alias"
         THEN IF Redeclarable(env[d.name], ty)
              THEN /\ env' = [env EXCEPT ![d.name] = ty]
                   /\ written' = [written EXCEPT ![d.name] = d.target]
                   /\ declCount' = [declCount EXCEPT ![d.name] = @ + 1]
                   /\ deps' = deps \cup (IF d.target \in Builtin THEN {} ELSE {d.target})
                   /\ pos' = IF pos = NDecls THEN 0 ELSE pos + 1
                   /\ UNCHANGED << objects, funcs, err >>
              ELSE /\ err' = "conflicting_declaration"
                   /\ UNCHANGED << env, written, pos, declCount, deps, objects, funcs >>
         ELSE IF d.kind = "object"
         THEN IF d.name \in objects
              THEN /\ err' = "redefinition"
                   /\ UNCHANGED << env, written, pos, declCount, deps, objects, funcs >>
              ELSE /\ objects' = objects \cup {d.name}
                   /\ pos' = IF pos = NDecls THEN 0 ELSE pos + 1
                   /\ UNCHANGED << env, written, declCount, deps, funcs, err >>
         ELSE /\ funcs' = funcs \cup {d.name}
              /\ pos' = IF pos = NDecls THEN 0 ELSE pos + 1
              /\ UNCHANGED << env, written, declCount, deps, objects, err >>
  /\ UNCHANGED << includes, lastUse >>

\* A value v held under alias name a is handed to a place declared with
\* alias name b (initialisation, assignment, argument passing).
Use(a, b, v) ==
  /\ err = "none"
  /\ env[a] # Unbound
  /\ env[b] # Unbound
  /\ lastUse' = [from |-> a, to |-> b, vin |-> v,
                 vout |-> Convert(env[a], env[b], v),
                 converted |-> (env[a] # env[b])]
  /\ UNCHANGED << env, written, pos, includes, declCount, deps, objects, funcs, err >>

Next ==
  \/ Include
  \/ Declare
  \/ \E a \in Names, b \in Names, v \in Values : Use(a, b, v)

Spec == Init /\ [][Next]_vars

\* ------------------------------------------------------------ vocabulary
Bound == { n \in Names : env[n] # Unbound }

\* one complete pass over the header is behind us and none is in progress
Done == includes >= 1 /\ pos = 0

\* number of alias-to-type steps from a bound name to a fundamental type
RECURSIVE Steps(_, _)
Steps(n, fuel) ==
  IF fuel = 0 THEN 0
  ELSE IF written[n] \in Builtin THEN 1
  ELSE IF written[n] \in Names THEN 1 + Steps(written[n], fuel - 1)
  ELSE 0

TypeOK ==
  /\ env \in [Names -> Builtin \cup {Unbound}]
  /\ pos \in 0..NDecls
  /\ includes \in 0..MaxIncludes
  /\ err \in {"none", "unknown_type", "conflicting_declaration", "redefinition"}

\* ---------------------------------------------------------------- claims

\* C1: every alias name the header declares resolves to double, the 64-bit
\* floating type, and to nothing else; after a full pass all of the
\* header's names are bound.
C1_AllResolveToDouble ==
  /\ \A n \in Bound : env[n] = "double" /\ SizeBits(env[n]) = 64
  /\ Done => Bound = Names

C1_Witness ==
  /\ Done
  /\ \A n \in {"Time", "Observation", "Mean", "SD", "LogLikelihood", "Rp"} :
        n \in Bound /\ env[n] = "double"

\* C2 as stated: after a full pass over the header the set of alias names
\* it has bound has exactly seven elements.
C2_SevenAliases == Done => Cardinality(Bound) = 7

\* C2 as amended: after a full pass over the header the set of alias names
\* it has bound has exactly six elements, and never more at any point.
C2_SixAliases ==
  /\ Cardinality(Bound) <= 6
  /\ Done => Cardinality(Bound) = 6

C2_Witness == Done /\ Cardinality(Bound) = 6 /\ includes = 1

\* C3: the header adds no operation and no object with storage to the
\* translation unit: at every point the sets of declared functions and of
\* declared objects are empty, so there is no runtime state to change.
C3_NoOperationsNoState == objects = {} /\ funcs = {}

C3_Witness == Done /\ Bound = Names /\ objects = {} /\ funcs = {}

\* C4: nothing the header declares can fail: no function is ever declared,
\* and no step of processing or using the header ends in an error state.
C4_NoErrorOutcome == err = "none" /\ funcs = {}

C4_Witness ==
  /\ includes >= 2 /\ pos = 0 /\ err = "none"
  /\ lastUse.from # Unbound

\* C5: starting from an empty name environment the header translates
\* without an unknown name: every right-hand side names a built-in type,
\* no other declared name is depended on, and the full pass binds all names.
C5_Standalone ==
  /\ deps = {}
  /\ err # "unknown_type"
  /\ \A n \in Bound : written[n] \in Builtin
  /\ Done => err = "none" /\ Bound = Names

C5_Witness == includes = 1 /\ pos = 0 /\ Bound = Names /\ deps = {} /\ err = "none"

\* C6: any two bound alias names denote the identical type (one equivalence
\* class), and a value handed from one alias name to another arrives
\* unconverted and unchanged, in the representation of double.
C6_Transparent ==
  /\ \A a \in Bound, b \in Bound : env[a] = env[b]
  /\ Cardinality({ env[n] : n \in Bound }) <= 1
  /\ lastUse.from # Unbound =>
       /\ ~lastUse.converted
       /\ lastUse.vout = lastUse.vin
       /\ SizeBits(env[lastUse.to]) = SizeBits(env[lastUse.from])

C6_Witness ==
  /\ lastUse.from = "Time" /\ lastUse.to = "SD"
  /\ lastUse.vin = 3 /\ lastUse.vout = 3

\* C7: within one pass over the header each name is declared at most once,
\* and exactly once when the pass completes; every bound name was written
\* directly against a built-in type, so it resolves in exactly one step.
C7_BoundOnceOneStep ==
  /\ \A n \in Names : declCount[n] <= 1
  /\ Done => \A n \in Names : declCount[n] = 1
  /\ \A n \in Bound : written[n] \in Builtin /\ Steps(n, NDecls) = 1

C7_Witness ==
  /\ Done
  /\ \A n \in Names : declCount[n] = 1 /\ Steps(n, NDecls) = 1

\* C8: once one pass over the header is complete, no later step changes a
\* binding or raises a diagnostic, and a later inclusion does process the
\* declarations again (nothing guards the file).
C8_IncludeIdempotent ==
  [][ /\ (includes >= 2 \/ Done) => (env' = env /\ written' = written /\ err' = "none")
      /\ (includes' >= 2 /\ pos # 0 /\ pos' = 0) => \A n \in Names : declCount'[n] = 1
    ]_vars

C8_Witness ==
  /\ includes = 2 /\ pos = 0 /\ err = "none"
  /\ \A n \in Names : declCount[n] = 1 /\ env[n] = "double"

====
